---- MODULE Spec2Model ----
(***************************************************************************)
(* Multi-level page-table simulator (paging-multilevel-translate.py).      *)
(* The OS object's fields are the state; each public method is an action.  *)
(* random.choice / random.randint are nondeterministic draws.              *)
(***************************************************************************)
EXTENDS Integers, Sequences, FiniteSets, TLC

(* ---- configuration set by OS.__init__ ---- *)
pageSize == 32
physPages == 128
physMem == pageSize * physPages
vaPages == 1024
vaSize == pageSize * vaPages
pageBits == 5
L0_MASK == 63488
L0_SHIFT == 15
PDE_MASK == 1984
PDE_SHIFT == 10
PTE_MASK == 62
PTE_SHIFT == 5
OFFSET_MASK == 31
VALID_BIT == 128
PFN_MASK == 127
INVALID_ENTRY == 127
\* the main program's default number of pages to allocate
allocated == 64

(* ---- bounds of the exploration ---- *)
MaxCalls == 3
MaxPages == 2
LowWater == 2

Pids == {1, 2}
LevelChoices == {1, 2, 3}
Frames == 0 .. (physPages - 1)
\* virtual pages drawn by callers: both values of bit 0 and of bit 5 occur
VPs == {5, 6, 37}
\* physical pages handed to allocVirtualPage by a direct caller
PPs == {9, 10}
\* addresses handed to translate: inside pages 5, 6 and 37, the last address of
\* the space, the first one beyond it and one a whole 16-bit span further
VAs == {5 * pageSize + 7, 6 * pageSize, 37 * pageSize + 7, vaSize - 1,
        vaSize, 2 * vaSize + 6 * pageSize}
\* frames handed to initPageDir by a direct caller: the first two and the last
InitFrames == {0, 1, physPages - 1}
\* draws of random.choice: draw 0 takes the first element of the free list, draw 1 the last
Draws == {0, 1}

(* ---- Python integer operators ---- *)
RECURSIVE BitAnd(_, _)
BitAnd(a, b) ==
    IF a = 0 \/ b = 0 THEN 0
    ELSE (a % 2) * (b % 2) + 2 * BitAnd(a \div 2, b \div 2)

RECURSIVE BitOr(_, _)
BitOr(a, b) ==
    IF a = 0 THEN b
    ELSE IF b = 0 THEN a
    ELSE (IF (a % 2) + (b % 2) > 0 THEN 1 ELSE 0) + 2 * BitOr(a \div 2, b \div 2)

RECURSIVE Pow2(_)
Pow2(n) == IF n = 0 THEN 1 ELSE 2 * Pow2(n - 1)

ShiftRight(a, n) == a \div Pow2(n)
ShiftLeft(a, n) == a * Pow2(n)

(* levels, usedPages, memory, pdbr: the fields of the OS object.               *)
(* pc, run: the position and the locals of a procAlloc call in progress.      *)
(* last: the most recent call and its outcome.  calls: the calls made so far. *)
(* given[f]: how often findFree has returned frame f.                         *)
(* passed: the (pid, page) pairs handed to allocVirtualPage so far.           *)
VARIABLES levels, usedPages, memory, pdbr, pc, run, last, calls, given, passed

vars == <<levels, usedPages, memory, pdbr, pc, run, last, calls, given, passed>>

(* The OS object as a value, threaded through the method bodies.  err is the *)
(* exception raised so far ("none" when none), ret the last value returned.   *)
Self ==
    [memory |-> memory, usedPages |-> usedPages, pdbr |-> pdbr,
     given |-> given, err |-> "none", ret |-> -1, wrote |-> FALSE, drawn |-> 0]

\* [i for i in range(physPages) if usedPages[i] == 0], as a set; the list is ascending
FreeList(used) == {i \in Frames : used[i] = 0}

\* the index random.choice picks in a list of n elements, for draw r: even draws
\* count from the start of the list, odd draws from its end
ChoiceIndex(r, n) ==
    IF r % 2 = 0 THEN (r \div 2) % n ELSE n - 1 - ((r \div 2) % n)

\* the free frame with k free frames below it, searched upwards from frame f
RECURSIVE FreeFromStart(_, _, _)
FreeFromStart(used, f, k) ==
    IF used[f] = 0
    THEN IF k = 0 THEN f ELSE FreeFromStart(used, f + 1, k - 1)
    ELSE FreeFromStart(used, f + 1, k)

\* the free frame with k free frames above it, searched downwards from frame f
RECURSIVE FreeFromEnd(_, _, _)
FreeFromEnd(used, f, k) ==
    IF used[f] = 0
    THEN IF k = 0 THEN f ELSE FreeFromEnd(used, f - 1, k - 1)
    ELSE FreeFromEnd(used, f - 1, k)

\* random.choice(free list) for draw r: the element at index ChoiceIndex(r, n)
RandomChoice(used, r) ==
    LET n == Cardinality(FreeList(used))
        i == ChoiceIndex(r, n)
    IN  IF r % 2 = 0 THEN FreeFromStart(used, 0, i)
        ELSE FreeFromEnd(used, physPages - 1, n - 1 - i)

\* findFree falling back on frame 0 when no frame is free
findFreeReuse(s, r) ==
    IF s.err # "none" THEN s
    ELSE LET freePage == IF FreeList(s.usedPages) = {} THEN 0
                         ELSE RandomChoice(s.usedPages, r)
         IN  [s EXCEPT !.usedPages[freePage] = 1,
                       !.given[freePage] = @ + 1,
                       !.ret = freePage,
                       !.drawn = @ + 1]

\* findFree without marking the frame used
findFreeNoMark(s, r) ==
    IF s.err # "none" THEN s
    ELSE IF FreeList(s.usedPages) = {} THEN [s EXCEPT !.err = "IndexError"]
    ELSE LET freePage == RandomChoice(s.usedPages, r)
         IN  [s EXCEPT !.given[freePage] = @ + 1,
                       !.ret = freePage,
                       !.drawn = @ + 1]

\* random.choice raises IndexError on an empty list
findFree(s, r) ==
    IF s.err # "none" THEN s
    ELSE IF FreeList(s.usedPages) = {} THEN [s EXCEPT !.err = "IndexError"]
    ELSE LET freePage == RandomChoice(s.usedPages, r)
         IN  [s EXCEPT !.usedPages[freePage] = 1,
                       !.given[freePage] = @ + 1,
                       !.ret = freePage,
                       !.drawn = @ + 1]

(* self.memory is kept frame by frame, and only the frames written so far are *)
(* kept: __init__ sets every byte to 0, so a byte of a frame that was never   *)
(* written reads 0.  Byte a is byte a % pageSize of frame a \div pageSize.    *)
ZeroPage == [i \in 0 .. (pageSize - 1) |-> 0]

PageOf(mem, f) == IF f \in DOMAIN mem THEN mem[f] ELSE ZeroPage

Load(mem, a) == PageOf(mem, a \div pageSize)[a % pageSize]

StorePage(mem, f, page) ==
    [g \in DOMAIN mem \cup {f} |-> IF g = f THEN page ELSE mem[g]]

Store(mem, a, v) ==
    StorePage(mem, a \div pageSize,
              [PageOf(mem, a \div pageSize) EXCEPT ![a % pageSize] = v])

\* memory[i] = v for i in range(from, to); whole frames are written at once
RECURSIVE Fill(_, _, _, _)
Fill(mem, from, to, v) ==
    IF from >= to THEN mem
    ELSE IF from % pageSize = 0 /\ from + pageSize <= to
         THEN Fill(StorePage(mem, from \div pageSize, [i \in 0 .. (pageSize - 1) |-> v]),
                   from + pageSize, to, v)
         ELSE Fill(Store(mem, from, v), from + 1, to, v)

\* initPageDir stopping one byte short of the end of the frame
initPageDirShort(s, whichPage) ==
    IF s.err # "none" THEN s
    ELSE LET whichByte == ShiftLeft(whichPage, pageBits)
         IN  [s EXCEPT !.memory = Fill(s.memory, whichByte, whichByte + pageSize - 1,
                                       INVALID_ENTRY)]

initPageDir(s, whichPage) ==
    IF s.err # "none" THEN s
    ELSE LET whichByte == ShiftLeft(whichPage, pageBits)
         IN  [s EXCEPT !.memory = Fill(s.memory, whichByte, whichByte + pageSize, INVALID_ENTRY)]

\* the valid bit taken to be set in every entry that is not zero
validBitNonZero(entry) == IF entry # 0 THEN 1 ELSE 0

\* the valid bit of a page-table entry, as translate extracts it
validBit(entry) == ShiftRight(BitAnd(entry, VALID_BIT), 7)

(* ---- OS.translate: the outcome, the addresses of memory it read and the ---- *)
(* ---- fields of the object after the call                               ---- *)
Outcome(s, r, e, rd) ==
    [ret |-> r, err |-> e, reads |-> rd,
     memory |-> s.memory, usedPages |-> s.usedPages, pdbr |-> s.pdbr, given |-> s.given]

\* translate looking the root up with a default, which enters the pid in pdbr
translateDefaultRoot(s, pid, virtualAddr) ==
    LET d == [s EXCEPT !.pdbr = [p \in DOMAIN s.pdbr \cup {pid} |->
                                    IF p \in DOMAIN s.pdbr THEN s.pdbr[p] ELSE 0]]
        root == d.pdbr[pid]
        l0Entry == Load(d.memory, ShiftLeft(root, pageBits)
                                    + ShiftRight(BitAnd(virtualAddr, L0_MASK), L0_SHIFT))
        l1Ptr == BitAnd(l0Entry, PFN_MASK)
        l1Addr == ShiftLeft(IF levels = 3 THEN l1Ptr ELSE root, pageBits)
                    + ShiftRight(BitAnd(virtualAddr, PDE_MASK), PDE_SHIFT)
        l1Entry == Load(d.memory, l1Addr)
        l2Ptr == BitAnd(l1Entry, PFN_MASK)
        l2Addr == ShiftLeft(IF levels >= 2 THEN l2Ptr ELSE root, pageBits)
                    + ShiftRight(BitAnd(virtualAddr, PTE_MASK), PTE_SHIFT)
        l2Entry == Load(d.memory, l2Addr)
    IN  IF levels >= 3 /\ validBit(l0Entry) # 1 THEN Outcome(d, -3, "none", <<>>)
        ELSE IF levels >= 2 /\ validBit(l1Entry) # 1 THEN Outcome(d, -2, "none", <<>>)
        ELSE IF validBit(l2Entry) # 1 THEN Outcome(d, -1, "none", <<>>)
        ELSE Outcome(d, BitOr(ShiftLeft(BitAnd(l2Entry, PFN_MASK), pageBits),
                              BitAnd(virtualAddr, OFFSET_MASK)), "none", <<>>)

translate(s, pid, virtualAddr) ==
    LET root == s.pdbr[pid]
        level0Bits == ShiftRight(BitAnd(virtualAddr, L0_MASK), L0_SHIFT)
        l0Addr == ShiftLeft(root, pageBits)
        l0Entry == Load(s.memory, l0Addr + level0Bits)
        l0Valid == validBit(l0Entry)
        l1Ptr == BitAnd(l0Entry, PFN_MASK)
        l1Bits == ShiftRight(BitAnd(virtualAddr, PDE_MASK), PDE_SHIFT)
        l1Addr == ShiftLeft(IF levels = 3 THEN l1Ptr ELSE root, pageBits) + l1Bits
        l1Entry == Load(s.memory, l1Addr)
        l1Valid == validBit(l1Entry)
        l2Ptr == BitAnd(l1Entry, PFN_MASK)
        l2Bits == ShiftRight(BitAnd(virtualAddr, PTE_MASK), PTE_SHIFT)
        l2Addr == ShiftLeft(IF levels >= 2 THEN l2Ptr ELSE root, pageBits) + l2Bits
        l2Entry == Load(s.memory, l2Addr)
        l2Valid == validBit(l2Entry)
        pfn == BitAnd(l2Entry, PFN_MASK)
        offset == BitAnd(virtualAddr, OFFSET_MASK)
        rd0 == IF levels >= 3 THEN <<l0Addr + level0Bits>> ELSE <<>>
        rd1 == IF levels >= 2 THEN rd0 \o <<l1Addr>> ELSE rd0
    IN  IF pid \notin DOMAIN s.pdbr THEN Outcome(s, 0, "KeyError", <<>>)
        ELSE IF levels >= 3 /\ l0Valid # 1 THEN Outcome(s, -3, "none", rd0)
        ELSE IF levels >= 2 /\ l1Valid # 1 THEN Outcome(s, -2, "none", rd1)
        ELSE IF l2Valid # 1 THEN Outcome(s, -1, "none", rd1 \o <<l2Addr>>)
        ELSE Outcome(s, BitOr(ShiftLeft(pfn, pageBits), offset), "none", rd1 \o <<l2Addr>>)

(* ---- OS.allocVirtualPage, level by level; r1, r2 are the draws of its ---- *)
(* ---- findFree calls                                                    ---- *)
\* lines 100-110: the Level 0 step; ret is l1Page
allocLevel0(s, pid, virtualPage, r1) ==
    IF s.err # "none" THEN s
    ELSE IF pid \notin DOMAIN s.pdbr THEN [s EXCEPT !.err = "KeyError"]
    ELSE
    LET l0Addr == ShiftLeft(s.pdbr[pid], pageBits)
        l0Index == ShiftRight(BitAnd(virtualPage, L0_MASK), L0_SHIFT)
        l0Entry == Load(s.memory, l0Addr + l0Index)
        s1 == findFree(s, r1)
        l1Page == s1.ret
    IN  IF BitAnd(l0Entry, VALID_BIT) = 0
        THEN IF s1.err # "none" THEN s1
             ELSE initPageDir(
                    [s1 EXCEPT !.memory = Store(@, l0Addr + l0Index, BitOr(VALID_BIT, l1Page))],
                    l1Page)
        ELSE [s EXCEPT !.ret = BitAnd(l0Entry, PFN_MASK)]

\* the Level 1 step drawing a new table whether or not the entry is valid
allocLevel1AlwaysNew(s, dirPage, virtualPage, r2) ==
    IF s.err # "none" THEN s
    ELSE
    LET l1Addr == ShiftLeft(dirPage, pageBits)
                    + ShiftRight(BitAnd(virtualPage, PDE_MASK), PDE_SHIFT)
        s1 == findFree(s, r2)
        l2Page == s1.ret
    IN  IF s1.err # "none" THEN s1
        ELSE initPageDir(
               [s1 EXCEPT !.memory = Store(@, l1Addr, BitOr(VALID_BIT, l2Page))],
               l2Page)

\* lines 113-121: the Level 1 step on directory frame dirPage; ret is l2Page
allocLevel1(s, dirPage, virtualPage, r2) ==
    IF s.err # "none" THEN s
    ELSE
    LET l1Addr == ShiftLeft(dirPage, pageBits)
                    + ShiftRight(BitAnd(virtualPage, PDE_MASK), PDE_SHIFT)
        l1Entry == Load(s.memory, l1Addr)
        s1 == findFree(s, r2)
        l2Page == s1.ret
    IN  IF BitAnd(l1Entry, VALID_BIT) = 0
        THEN IF s1.err # "none" THEN s1
             ELSE initPageDir(
                    [s1 EXCEPT !.memory = Store(@, l1Addr, BitOr(VALID_BIT, l2Page))],
                    l2Page)
        ELSE [s EXCEPT !.ret = BitAnd(l1Entry, PFN_MASK)]

\* the leaf step writing the entry whether or not it is valid already
allocLeafOverwrite(s, l2Page, virtualPage, physicalPage) ==
    IF s.err # "none" THEN s
    ELSE
    LET l2Addr == ShiftLeft(l2Page, pageBits)
                    + ShiftRight(BitAnd(virtualPage, PTE_MASK), PTE_SHIFT)
    IN  [s EXCEPT !.memory = Store(@, l2Addr, BitOr(VALID_BIT, physicalPage)),
                  !.wrote = TRUE]

\* lines 124-126: the leaf step in table frame l2Page
allocLeaf(s, l2Page, virtualPage, physicalPage) ==
    IF s.err # "none" THEN s
    ELSE
    LET l2Addr == ShiftLeft(l2Page, pageBits)
                    + ShiftRight(BitAnd(virtualPage, PTE_MASK), PTE_SHIFT)
    IN  IF BitAnd(Load(s.memory, l2Addr), VALID_BIT) = 0
        THEN [s EXCEPT !.memory = Store(@, l2Addr, BitOr(VALID_BIT, physicalPage)),
                       !.wrote = TRUE]
        ELSE s

\* allocVirtualPage creating a root in frame 0 for a pid that has none
allocVirtualPageDefaultRoot(s, pid, virtualPage, physicalPage, r1, r2) ==
    LET d == [s EXCEPT !.pdbr = [p \in DOMAIN s.pdbr \cup {pid} |->
                                    IF p \in DOMAIN s.pdbr THEN s.pdbr[p] ELSE 0]]
        s0 == IF levels >= 3 THEN allocLevel0(d, pid, virtualPage, r1) ELSE d
        s1 == IF s0.err # "none" THEN s0
              ELSE allocLevel1(s0, IF levels = 3 THEN s0.ret ELSE s0.pdbr[pid],
                               virtualPage, r2)
    IN  IF s1.err # "none" THEN s1
        ELSE allocLeaf(s1, s1.ret, virtualPage, physicalPage)

allocVirtualPage(s, pid, virtualPage, physicalPage, r1, r2) ==
    LET s0 == IF levels >= 3 THEN allocLevel0(s, pid, virtualPage, r1) ELSE s
        s1 == IF s0.err # "none" THEN s0
              ELSE IF levels = 3 THEN allocLevel1(s0, s0.ret, virtualPage, r2)
              ELSE IF pid \notin DOMAIN s0.pdbr THEN [s0 EXCEPT !.err = "KeyError"]
              ELSE allocLevel1(s0, s0.pdbr[pid], virtualPage, r2)
    IN  IF s1.err # "none" THEN s1
        ELSE allocLeaf(s1, s1.ret, virtualPage, physicalPage)

(* ---- OS.procAlloc, lines 130-132: the root is drawn, recorded, initialised ---- *)
procAllocRoot(s, pid, r) ==
    LET s1 == findFree(s, r)
        pageDir == s1.ret
    IN  IF s1.err # "none" THEN s1
        ELSE initPageDir(
               [s1 EXCEPT !.pdbr = [p \in DOMAIN s1.pdbr \cup {pid} |->
                                       IF p = pid THEN pageDir ELSE s1.pdbr[p]]],
               pageDir)

\* the loop body handing frame 0 to allocVirtualPage instead of calling findFree
procAllocPageNoFrame(s, pid, vp, r0, r1, r2) ==
    allocVirtualPage(s, pid, vp, 0, r0, r1)

\* lines 139-140: one pass of the loop body for the drawn page vp
procAllocPage(s, pid, vp, r0, r1, r2) ==
    LET s1 == findFree(s, r0)
        pp == s1.ret
    IN  IF s1.err # "none" THEN s1
        ELSE allocVirtualPage(s1, pid, vp, pp, r1, r2)

(* ---- the record of the most recent call and its outcome.  again: the call ---- *)
(* ---- before it was a completed allocVirtualPage of the same pid and page,  ---- *)
(* ---- which was given pp1 and wrote the leaf entry iff wrote1, or it was a  ---- *)
(* ---- translate of the same pid and address                                ---- *)
Call(op, pid, arg, pp, ret, err, wrote, reads, vps, fresh) ==
    [op |-> op, pid |-> pid, arg |-> arg, pp |-> pp, ret |-> ret, err |-> err,
     wrote |-> wrote, reads |-> reads, vps |-> vps, fresh |-> fresh,
     again |-> FALSE, pp1 |-> 0, wrote1 |-> FALSE]

Repeats(pid, vp) ==
    /\ last.op = "allocVirtualPage"
    /\ last.err = "none"
    /\ last.pid = pid
    /\ last.arg = vp

NoCall == Call("none", 0, 0, 0, 0, "none", FALSE, <<>>, {}, FALSE)
NoRun == [pid |-> 0, numPages |-> 0, i |-> 0, allocatedVPs |-> {}, fresh |-> FALSE]

Fresh ==
    /\ \A f \in Frames : usedPages[f] = 0
    /\ \A f \in DOMAIN memory : memory[f] = ZeroPage
    /\ DOMAIN pdbr = {}

NumFree == Cardinality(FreeList(usedPages))

\* a draw that no findFree call consumed has no effect: it is taken to be 0
Unused(s, rs) == \A i \in (s.drawn + 1) .. Len(rs) : rs[i] = 0

Commit(s) ==
    /\ memory' = s.memory
    /\ usedPages' = s.usedPages
    /\ pdbr' = s.pdbr
    /\ given' = s.given

Init ==
    /\ levels \in LevelChoices
    /\ usedPages = [i \in Frames |-> 0]
    /\ memory = << >>
    /\ pdbr = << >>
    /\ pc = "idle"
    /\ run = NoRun
    /\ last = NoCall
    /\ calls = 0
    /\ given = [i \in Frames |-> 0]
    /\ passed = {}

(* ---- the calls a client makes on the OS object ---- *)
DoFindFree(r) ==
    LET s == findFree(Self, r)
    IN  /\ pc = "idle"
        /\ Commit(s)
        /\ last' = Call("findFree", 0, 0, 0, s.ret, s.err, FALSE, <<>>, {}, FALSE)
        /\ UNCHANGED <<levels, pc, run, passed>>

CallFindFree ==
    /\ calls < MaxCalls
    /\ calls' = calls + 1
    /\ \E r \in Draws : DoFindFree(r)

CallTranslate ==
    /\ pc = "idle"
    /\ calls < MaxCalls
    /\ calls' = calls + 1
    /\ \E pid \in Pids, va \in VAs :
          LET o == translate(Self, pid, va)
          IN  /\ Commit(o)
              /\ last' = [Call("translate", pid, va, 0, o.ret, o.err, FALSE, o.reads,
                               {}, FALSE)
                             EXCEPT !.again = (last.op = "translate" /\ last.pid = pid
                                               /\ last.arg = va)]
    /\ UNCHANGED <<levels, pc, run, passed>>

\* the client makes its last translate call once more
RepeatTranslate ==
    /\ pc = "idle"
    /\ last.op = "translate"
    /\ ~last.again
    /\ LET o == translate(Self, last.pid, last.arg)
       IN  /\ Commit(o)
           /\ last' = [Call("translate", last.pid, last.arg, 0, o.ret, o.err, FALSE,
                            o.reads, {}, FALSE)
                          EXCEPT !.again = TRUE]
    /\ UNCHANGED <<levels, pc, run, calls, passed>>

CallAllocVirtualPage ==
    /\ pc = "idle"
    /\ calls < MaxCalls
    /\ calls' = calls + 1
    /\ \E pid \in Pids, vp \in VPs, pp \in PPs, r1 \in Draws, r2 \in Draws :
          LET s == allocVirtualPage(Self, pid, vp, pp, r1, r2)
          IN  /\ Unused(s, <<r1, r2>>)
              /\ Commit(s)
              /\ last' = [Call("allocVirtualPage", pid, vp, pp, 0, s.err, s.wrote,
                               <<>>, {}, FALSE)
                             EXCEPT !.again = Repeats(pid, vp),
                                    !.pp1 = IF Repeats(pid, vp) THEN last.pp ELSE 0,
                                    !.wrote1 = Repeats(pid, vp) /\ last.wrote]
              /\ passed' = passed \cup {<<pid, vp>>}
    /\ UNCHANGED <<levels, pc, run>>

ProcAllocBegin ==
    /\ pc = "idle"
    /\ \E pid \in Pids, numPages \in 0 .. MaxPages, r \in Draws :
          LET s == procAllocRoot(Self, pid, r)
          IN  /\ calls + 1 + numPages <= MaxCalls
              /\ calls' = calls + 1 + numPages
              /\ Commit(s)
              /\ IF s.err # "none"
                 THEN /\ pc' = "idle"
                      /\ run' = NoRun
                      /\ last' = Call("procAlloc", pid, numPages, 0, 0, s.err, FALSE,
                                      <<>>, {}, Fresh)
                 ELSE /\ pc' = "loop"
                      /\ run' = [pid |-> pid, numPages |-> numPages, i |-> 0,
                                 allocatedVPs |-> {}, fresh |-> Fresh]
                      /\ last' = Call("procAllocRoot", pid, numPages, 0, s.ret, "none",
                                      FALSE, <<>>, {}, Fresh)
    /\ UNCHANGED <<levels, passed>>

ProcAllocLoop ==
    /\ pc = "loop"
    /\ run.i < run.numPages
    /\ \E vp \in VPs \ run.allocatedVPs, r0 \in Draws, r1 \in Draws, r2 \in Draws :
          LET s == procAllocPage(Self, run.pid, vp, r0, r1, r2)
          IN  /\ Unused(s, <<r0, r1, r2>>)
              /\ Commit(s)
              /\ passed' = IF findFree(Self, r0).err = "none"
                           THEN passed \cup {<<run.pid, vp>>} ELSE passed
              /\ IF s.err # "none"
                 THEN /\ pc' = "idle"
                      /\ run' = NoRun
                      /\ last' = Call("procAlloc", run.pid, run.numPages, 0, 0, s.err,
                                      FALSE, <<>>, run.allocatedVPs, run.fresh)
                 ELSE /\ pc' = "loop"
                      /\ run' = [run EXCEPT !.i = @ + 1,
                                            !.allocatedVPs = @ \cup {vp}]
                      /\ last' = Call("procAllocPage", run.pid, vp, s.ret, 0, "none",
                                      s.wrote, <<>>, run.allocatedVPs \cup {vp}, run.fresh)
    /\ UNCHANGED <<levels, calls>>

ProcAllocReturn ==
    /\ pc = "loop"
    /\ run.i = run.numPages
    /\ pc' = "idle"
    /\ run' = NoRun
    /\ last' = Call("procAlloc", run.pid, run.numPages, 0, 0, "none", FALSE, <<>>,
                    run.allocatedVPs, run.fresh)
    /\ UNCHANGED <<levels, usedPages, memory, pdbr, calls, given, passed>>

Next ==
    \/ CallTranslate
    \/ CallAllocVirtualPage
    \/ ProcAllocBegin
    \/ ProcAllocLoop
    \/ ProcAllocReturn

Spec == Init /\ [][Next]_vars

(* ---- findFree called directly, and the allocating calls on a store that ---- *)
(* ---- findFree calls have filled down to LowWater free frames            ---- *)
FillFrame ==
    /\ NumFree > LowWater
    /\ DoFindFree(0)
    /\ UNCHANGED calls

NextOOM ==
    \/ FillFrame
    \/ (NumFree <= LowWater /\ CallFindFree)
    \/ (NumFree <= LowWater /\ CallAllocVirtualPage)
    \/ (NumFree <= LowWater /\ ProcAllocBegin)
    \/ ProcAllocLoop
    \/ ProcAllocReturn

SpecOOM == Init /\ [][NextOOM]_vars

(* ---- initPageDir called directly, between procAlloc calls ---- *)
CallInitPageDir ==
    /\ pc = "idle"
    /\ calls < MaxCalls
    /\ calls' = calls + 1
    /\ \E whichPage \in InitFrames :
          LET s == initPageDir(Self, whichPage)
          IN  /\ Commit(s)
              /\ last' = Call("initPageDir", 0, whichPage, 0, 0, s.err, FALSE, <<>>, {}, FALSE)
    /\ UNCHANGED <<levels, pc, run, passed>>

NextDir ==
    \/ CallInitPageDir
    \/ ProcAllocBegin
    \/ ProcAllocLoop
    \/ ProcAllocReturn

SpecDir == Init /\ [][NextDir]_vars

(* ---- procAlloc the only allocating call, as in the main program ---- *)
NextProc ==
    \/ ProcAllocBegin
    \/ ProcAllocLoop
    \/ ProcAllocReturn
    \/ CallTranslate
    \/ RepeatTranslate

SpecProc == Init /\ [][NextProc]_vars

(* ---- the main program: OS(levels=3), then procAlloc(1, n) on the fresh   ---- *)
(* ---- store, n up to the default.  A draw of 0 takes the lowest virtual   ---- *)
(* ---- page not yet chosen and the first free frames, a draw of 1 the      ---- *)
(* ---- highest page and the last free frames                               ---- *)
RECURSIVE LowestFrom(_, _)
LowestFrom(S, v) == IF v \notin S THEN v ELSE LowestFrom(S, v + 1)

RECURSIVE HighestFrom(_, _)
HighestFrom(S, v) == IF v \notin S THEN v ELSE HighestFrom(S, v - 1)

\* random.randint(0, vaPages - 1), redrawn until the page is not in allocatedVPs
RunPage(allocatedVPs, c) ==
    IF c = 0 THEN LowestFrom(allocatedVPs, 0) ELSE HighestFrom(allocatedVPs, vaPages - 1)

\* the numbers of pages asked for: the smallest, the default and the one below
\* it.  A run of fewer pages is the beginning of a run of more pages.
RunSizes == {0, 1, 2, allocated - 1, allocated}

InitRun == Init /\ levels = 3

RunBegin ==
    /\ pc = "idle"
    /\ Fresh
    /\ last = NoCall
    /\ \E numPages \in RunSizes, r \in Draws :
          LET s == procAllocRoot(Self, 1, r)
          IN  /\ Commit(s)
              /\ IF s.err # "none"
                 THEN /\ pc' = "idle"
                      /\ run' = NoRun
                      /\ last' = Call("procAlloc", 1, numPages, 0, 0, s.err, FALSE,
                                      <<>>, {}, TRUE)
                 ELSE /\ pc' = "loop"
                      /\ run' = [pid |-> 1, numPages |-> numPages, i |-> 0,
                                 allocatedVPs |-> {}, fresh |-> TRUE]
                      /\ last' = Call("procAllocRoot", 1, numPages, 0, s.ret, "none",
                                      FALSE, <<>>, {}, TRUE)
    /\ UNCHANGED <<levels, calls, passed>>

RunLoop ==
    /\ pc = "loop"
    /\ run.i < run.numPages
    /\ \E c \in Draws :
          LET vp == RunPage(run.allocatedVPs, c)
              s == procAllocPage(Self, run.pid, vp, c, c, c)
          IN  /\ Commit(s)
              /\ passed' = IF findFree(Self, c).err = "none"
                           THEN passed \cup {<<run.pid, vp>>} ELSE passed
              /\ IF s.err # "none"
                 THEN /\ pc' = "idle"
                      /\ run' = NoRun
                      /\ last' = Call("procAlloc", run.pid, run.numPages, 0, 0, s.err,
                                      FALSE, <<>>, run.allocatedVPs, run.fresh)
                 ELSE /\ pc' = "loop"
                      /\ run' = [run EXCEPT !.i = @ + 1,
                                            !.allocatedVPs = @ \cup {vp}]
                      /\ last' = Call("procAllocPage", run.pid, vp, s.ret, 0, "none",
                                      s.wrote, <<>>, run.allocatedVPs \cup {vp}, run.fresh)
    /\ UNCHANGED <<levels, calls>>

NextRun ==
    \/ RunBegin
    \/ RunLoop
    \/ ProcAllocReturn

\* what an iteration of the loop does to the locals of procAlloc (line 141)
RunIteration ==
    /\ pc = "loop"
    /\ run.i < run.numPages
    /\ \E c \in Draws :
          run' = [run EXCEPT !.i = @ + 1,
                             !.allocatedVPs = @ \cup {RunPage(run.allocatedVPs, c)}]

\* the program runs on: it makes the call, the loop goes through its iterations
\* (a redraw finds a new page in the end) and procAlloc returns
SpecRun ==
    /\ InitRun
    /\ [][NextRun]_vars
    /\ WF_vars(RunBegin)
    /\ WF_run(RunIteration)
    /\ WF_vars(ProcAllocReturn)

(* ---- allocVirtualPage statement by statement.  run holds the locals of the ---- *)
(* ---- call and, in caller, those of the procAlloc loop that made it        ---- *)
AllocFrame(caller, pid, vp, pp) ==
    [caller |-> caller, pid |-> pid, vp |-> vp, pp |-> pp, l1Page |-> 0, l2Page |-> 0]

\* an exception leaves allocVirtualPage, and procAlloc when it made the call
Raise(err) ==
    /\ pc' = "idle"
    /\ run' = NoRun
    /\ last' = Call(IF run.caller = NoRun THEN "allocVirtualPage" ELSE "procAlloc",
                    run.pid, run.vp, run.pp, 0, err, FALSE, <<>>, {}, FALSE)

\* line 98: a direct call
StepCall ==
    /\ pc = "idle"
    /\ calls < MaxCalls
    /\ calls' = calls + 1
    /\ \E pid \in Pids, vp \in VPs, pp \in PPs :
          /\ run' = AllocFrame(NoRun, pid, vp, pp)
          /\ passed' = passed \cup {<<pid, vp>>}
    /\ pc' = IF levels >= 3 THEN "l0" ELSE "l1"
    /\ UNCHANGED <<levels, usedPages, memory, pdbr, last, given>>

\* lines 135-140: the loop draws a page and a data frame and makes the call
StepLoopCall ==
    /\ pc = "loop"
    /\ run.i < run.numPages
    /\ \E vp \in VPs \ run.allocatedVPs, r0 \in Draws :
          LET s == findFree(Self, r0)
          IN  /\ Commit(s)
              /\ IF s.err # "none"
                 THEN /\ pc' = "idle"
                      /\ run' = NoRun
                      /\ last' = Call("procAlloc", run.pid, run.numPages, 0, 0, s.err,
                                      FALSE, <<>>, run.allocatedVPs, run.fresh)
                      /\ UNCHANGED passed
                 ELSE /\ pc' = IF levels >= 3 THEN "l0" ELSE "l1"
                      /\ run' = AllocFrame(run, run.pid, vp, s.ret)
                      /\ passed' = passed \cup {<<run.pid, vp>>}
                      /\ UNCHANGED last
    /\ UNCHANGED <<levels, calls>>

\* lines 101-107 and 110: the Level 0 entry is read and, when invalid, a frame
\* is drawn and the entry is pointed at it
StepL0Entry ==
    /\ pc = "l0"
    /\ IF run.pid \notin DOMAIN pdbr
       THEN Raise("KeyError") /\ UNCHANGED <<usedPages, memory, pdbr, given>>
       ELSE LET l0Addr == ShiftLeft(pdbr[run.pid], pageBits)
                l0Index == ShiftRight(BitAnd(run.vp, L0_MASK), L0_SHIFT)
                l0Entry == Load(memory, l0Addr + l0Index)
            IN  IF BitAnd(l0Entry, VALID_BIT) = 0
                THEN \E r \in Draws :
                        LET s == findFree(Self, r)
                        IN  IF s.err # "none"
                            THEN Raise(s.err) /\ UNCHANGED <<usedPages, memory, pdbr, given>>
                            ELSE /\ Commit([s EXCEPT !.memory =
                                              Store(@, l0Addr + l0Index, BitOr(VALID_BIT, s.ret))])
                                 /\ run' = [run EXCEPT !.l1Page = s.ret]
                                 /\ pc' = "l0init"
                                 /\ UNCHANGED last
                ELSE /\ run' = [run EXCEPT !.l1Page = BitAnd(l0Entry, PFN_MASK)]
                     /\ pc' = "l1"
                     /\ UNCHANGED <<usedPages, memory, pdbr, given, last>>
    /\ UNCHANGED <<levels, calls, passed>>

\* line 108
StepL0Init ==
    /\ pc = "l0init"
    /\ Commit(initPageDir(Self, run.l1Page))
    /\ pc' = "l1"
    /\ UNCHANGED <<levels, run, last, calls, passed>>

\* lines 113-118 and 121: the same for the Level 1 entry
StepL1Entry ==
    /\ pc = "l1"
    /\ IF levels # 3 /\ run.pid \notin DOMAIN pdbr
       THEN Raise("KeyError") /\ UNCHANGED <<usedPages, memory, pdbr, given>>
       ELSE LET l1Addr == ShiftLeft(IF levels = 3 THEN run.l1Page ELSE pdbr[run.pid], pageBits)
                            + ShiftRight(BitAnd(run.vp, PDE_MASK), PDE_SHIFT)
                l1Entry == Load(memory, l1Addr)
            IN  IF BitAnd(l1Entry, VALID_BIT) = 0
                THEN \E r \in Draws :
                        LET s == findFree(Self, r)
                        IN  IF s.err # "none"
                            THEN Raise(s.err) /\ UNCHANGED <<usedPages, memory, pdbr, given>>
                            ELSE /\ Commit([s EXCEPT !.memory =
                                              Store(@, l1Addr, BitOr(VALID_BIT, s.ret))])
                                 /\ run' = [run EXCEPT !.l2Page = s.ret]
                                 /\ pc' = "l1init"
                                 /\ UNCHANGED last
                ELSE /\ run' = [run EXCEPT !.l2Page = BitAnd(l1Entry, PFN_MASK)]
                     /\ pc' = "leaf"
                     /\ UNCHANGED <<usedPages, memory, pdbr, given, last>>
    /\ UNCHANGED <<levels, calls, passed>>

\* line 119
StepL1Init ==
    /\ pc = "l1init"
    /\ Commit(initPageDir(Self, run.l2Page))
    /\ pc' = "leaf"
    /\ UNCHANGED <<levels, run, last, calls, passed>>

\* lines 124-126, and line 141 when procAlloc made the call
StepLeaf ==
    /\ pc = "leaf"
    /\ LET s == allocLeaf(Self, run.l2Page, run.vp, run.pp)
       IN  /\ Commit(s)
           /\ IF run.caller = NoRun
              THEN /\ pc' = "idle"
                   /\ run' = NoRun
                   /\ last' = Call("allocVirtualPage", run.pid, run.vp, run.pp, 0, "none",
                                   s.wrote, <<>>, {}, FALSE)
              ELSE /\ pc' = "loop"
                   /\ run' = [run.caller EXCEPT !.i = @ + 1,
                                                !.allocatedVPs = @ \cup {run.vp}]
                   /\ last' = Call("procAllocPage", run.pid, run.vp, run.pp, 0, "none",
                                   s.wrote, <<>>, run.caller.allocatedVPs \cup {run.vp},
                                   run.caller.fresh)
    /\ UNCHANGED <<levels, calls, passed>>

NextSteps ==
    \/ ProcAllocBegin
    \/ StepLoopCall
    \/ ProcAllocReturn
    \/ StepCall
    \/ StepL0Entry
    \/ StepL0Init
    \/ StepL1Entry
    \/ StepL1Init
    \/ StepLeaf

SpecSteps == Init /\ [][NextSteps]_vars

(***************************************************************************)
(* Properties                                                              *)
(***************************************************************************)
\* a page-table entry read as the data model describes it: bit 7, bits 6..0
Valid(e) == (e \div 128) % 2 = 1
FrameOf(e) == e % 128

\* the slot translate selects at each level: (va & mask) >> shift with the
\* source's masks and shifts leaves one bit of the address
SelL0(va) == (va \div 32768) % 2
SelL1(va) == (va \div 1024) % 2
SelL2(va) == (va \div 32) % 2

RootAddr(pid) == pdbr[pid] * pageSize
L0EntryAddr(pid, va) == RootAddr(pid) + SelL0(va)
L1EntryAddr(pid, va) == FrameOf(Load(memory, L0EntryAddr(pid, va))) * pageSize + SelL1(va)
L2EntryAddr(pid, va) == FrameOf(Load(memory, L1EntryAddr(pid, va))) * pageSize + SelL2(va)

\* C1: with levels = 3, once allocVirtualPage(pid, vp, pp) has installed the
\* mapping vp -> pp, translate(pid, vp * PAGE_SIZE + o) returns pp * PAGE_SIZE + o
\* for every offset o in [0, 32).
C1_RoundTrip ==
    (levels = 3 /\ last.op = "allocVirtualPage" /\ last.err = "none" /\ last.wrote)
    => \A o \in 0 .. (pageSize - 1) :
          LET t == translate(Self, last.pid, last.arg * pageSize + o)
          IN  t.err = "none" /\ t.ret = last.pp * pageSize + o

\* C2: with levels = 3, translate(pid, va) of an in-range address whose page was
\* never passed to allocVirtualPage for that pid returns a fault, not an address.
C2_UnmappedFault ==
    (levels = 3 /\ pc = "idle") =>
      \A pid \in DOMAIN pdbr, va \in VAs :
          (va < vaSize /\ <<pid, va \div pageSize>> \notin passed)
          => LET t == translate(Self, pid, va)
             IN  t.err = "none" /\ t.ret < 0

\* C3: with levels = 3, translate returns -3 iff the L0 entry it selects is
\* invalid, -2 iff that entry is valid and the L1 entry is invalid, -1 iff both
\* are valid and the leaf entry is invalid, an address iff all three are valid;
\* and it reads no entry below the first invalid one.  (translate leaves memory
\* as it was, so the entries it met are those of the state after the call.)
C3_ShallowestFault ==
    (levels = 3 /\ last.op = "translate" /\ last.pid \in DOMAIN pdbr)
    => LET a0 == L0EntryAddr(last.pid, last.arg)
           a1 == L1EntryAddr(last.pid, last.arg)
           a2 == L2EntryAddr(last.pid, last.arg)
           v0 == Valid(Load(memory, a0))
           v1 == Valid(Load(memory, a1))
           v2 == Valid(Load(memory, a2))
       IN  /\ last.err = "none"
           /\ (last.ret = -3) <=> ~v0
           /\ (last.ret = -2) <=> (v0 /\ ~v1)
           /\ (last.ret = -1) <=> (v0 /\ v1 /\ ~v2)
           /\ (last.ret >= 0) <=> (v0 /\ v1 /\ v2)
           /\ ~v0 => last.reads = <<a0>>
           /\ (v0 /\ ~v1) => last.reads = <<a0, a1>>
           /\ (v0 /\ v1) => last.reads = <<a0, a1, a2>>

\* a translate call that met a valid L0 entry and an invalid L1 entry
C3_Witness ==
    /\ levels = 3
    /\ last.op = "translate"
    /\ last.ret = -2
    /\ Len(last.reads) = 2

\* the leaf slot allocVirtualPage reaches for page vp of pid in memory mem
AllocDirFrame(mem, pid, vp) ==
    IF levels = 3 THEN FrameOf(Load(mem, pdbr[pid] * pageSize + SelL0(vp)))
    ELSE pdbr[pid]
AllocL1Addr(mem, pid, vp) == AllocDirFrame(mem, pid, vp) * pageSize + SelL1(vp)
AllocLeafAddr(mem, pid, vp) ==
    FrameOf(Load(mem, AllocL1Addr(mem, pid, vp))) * pageSize + SelL2(vp)

\* C4: a second allocVirtualPage(pid, vp, pp2), pp2 # pp1, right after a completed
\* allocVirtualPage(pid, vp, pp1) changes no byte of memory, no used bit and not
\* pdbr, and when the first call wrote the leaf entry it still holds pp1.
C4_FirstWriterWins ==
    [][ ( /\ last.op = "allocVirtualPage"
          /\ last.err = "none"
          /\ last'.op = "allocVirtualPage"
          /\ last'.pid = last.pid
          /\ last'.arg = last.arg
          /\ last'.pp # last.pp )
        => /\ memory' = memory
           /\ usedPages' = usedPages
           /\ pdbr' = pdbr
           /\ last'.err = "none"
           /\ ~last'.wrote
           /\ last.wrote =>
                Load(memory', AllocLeafAddr(memory', last.pid, last.arg)) = 128 + last.pp
      ]_vars

\* a second call for the page the call before it mapped, with another frame
C4_Witness ==
    /\ last.op = "allocVirtualPage"
    /\ last.err = "none"
    /\ last.again
    /\ last.wrote1
    /\ last.pp # last.pp1

\* C5: after a completed procAlloc(pid, n) on a fresh store (levels = 3), a frame
\* is used iff it is the root, a directory or table reached through valid
\* entries, or a data page held by a valid leaf entry; and the number of used
\* frames is 1 + #L1 directories + #L2 tables + #valid leaf entries.
C5_UsedFrameAccounting ==
    (levels = 3 /\ pc = "idle" /\ last.op = "procAlloc" /\ last.err = "none" /\ last.fresh)
    => LET root == pdbr[last.pid]
           Slots == 0 .. (pageSize - 1)
           L1Dirs == {FrameOf(Load(memory, root * pageSize + i)) :
                        i \in {j \in Slots : Valid(Load(memory, root * pageSize + j))}}
           L2Tabs == UNION {{FrameOf(Load(memory, d * pageSize + i)) :
                               i \in {j \in Slots : Valid(Load(memory, d * pageSize + j))}} :
                            d \in L1Dirs}
           Leaves == {x \in L2Tabs \X Slots : Valid(Load(memory, x[1] * pageSize + x[2]))}
           DataPages == {FrameOf(Load(memory, x[1] * pageSize + x[2])) : x \in Leaves}
       IN  /\ \A f \in Frames :
                 usedPages[f] = 1 <=> f \in ({root} \cup L1Dirs \cup L2Tabs \cup DataPages)
           /\ Cardinality({f \in Frames : usedPages[f] = 1})
                = 1 + Cardinality(L1Dirs) + Cardinality(L2Tabs) + Cardinality(Leaves)

\* C6: every findFree call, direct or inside allocVirtualPage and procAlloc,
\* returns a frame whose used bit was 0 and is 1 afterwards, no other used bit
\* changes, and no frame is ever returned twice.
C6_NoFrameTwice ==
    /\ [](\A f \in Frames : given[f] <= 1)
    /\ [][ /\ \A f \in Frames :
                /\ given'[f] \in {given[f], given[f] + 1}
                /\ given'[f] = given[f] + 1 => (usedPages[f] = 0 /\ usedPages'[f] = 1)
                /\ given'[f] = given[f] => usedPages'[f] = usedPages[f]
           /\ (last'.op = "findFree" /\ last'.err = "none" /\ calls' # calls)
              => /\ given'[last'.ret] = given[last'.ret] + 1
                 /\ \A f \in Frames \ {last'.ret} : given'[f] = given[f]
         ]_vars

\* a direct findFree call returned a frame after another frame was handed out
C6_Witness ==
    /\ last.op = "findFree"
    /\ last.err = "none"
    /\ usedPages[last.ret] = 1
    /\ Cardinality({f \in Frames : usedPages[f] = 1}) >= 2

StoreFull == \A f \in Frames : usedPages[f] = 1

AllocNeedsFrame(pid, vp) ==
    /\ pid \in DOMAIN pdbr
    /\ \/ levels = 3 /\ ~Valid(Load(memory, pdbr[pid] * pageSize + SelL0(vp)))
       \/ ~Valid(Load(memory, AllocL1Addr(memory, pid, vp)))

\* C7: with every frame used, findFree raises an error and returns no frame,
\* leaving the used bits and memory as they were; allocVirtualPage and procAlloc
\* calls that need a frame then fail, and no used frame is handed out again.
C7_OutOfMemory ==
    [][ StoreFull =>
          /\ usedPages' = usedPages
          /\ given' = given
          /\ last'.op = "findFree"
               => (last'.err = "IndexError" /\ memory' = memory /\ pdbr' = pdbr)
          /\ (last'.op = "allocVirtualPage" /\ AllocNeedsFrame(last'.pid, last'.arg))
               => (last'.err = "IndexError" /\ memory' = memory)
          /\ (pc = "idle" /\ last'.op \in {"procAlloc", "procAllocRoot"})
               => (last'.op = "procAlloc" /\ last'.err = "IndexError"
                   /\ pc' = "idle" /\ pdbr' = pdbr /\ memory' = memory)
          /\ (pc = "loop" /\ run.i < run.numPages)
               => (last'.op = "procAlloc" /\ last'.err = "IndexError"
                   /\ pc' = "idle" /\ memory' = memory)
      ]_vars

\* findFree was called on a full store
C7_Witness ==
    /\ StoreFull
    /\ last.op = "findFree"
    /\ last.err = "IndexError"

\* C8: a procAlloc for a pid that already has a root fails with DuplicateProcess
\* and changes neither pdbr, memory nor the used bits; pdbr[pid], once set,
\* never changes.
C8_RootCreatedOnce ==
    [][ /\ \A p \in DOMAIN pdbr : p \in DOMAIN pdbr' /\ pdbr'[p] = pdbr[p]
        /\ (pc = "idle" /\ last'.op \in {"procAlloc", "procAllocRoot"}
              /\ last'.pid \in DOMAIN pdbr)
           => (last'.err = "DuplicateProcess" /\ memory' = memory
               /\ usedPages' = usedPages)
      ]_vars

\* C9: translate(pid, va) with va >= VA_PAGES * PAGE_SIZE is rejected with an
\* error; it returns neither an address nor a fault.
C9_RangeChecked ==
    (last.op = "translate" /\ last.arg >= vaSize) => last.err # "none"

\* C10: translate and allocVirtualPage for a pid without a root raise an error
\* (at every levels setting) and change neither memory, the used bits nor pdbr.
C10_UnknownProcess ==
    [][ (last'.op \in {"translate", "allocVirtualPage"}
           /\ last'.pid \notin DOMAIN pdbr
           /\ calls' # calls)
        => /\ last'.err = "KeyError"
           /\ UNCHANGED <<memory, usedPages, pdbr, given>>
      ]_vars

\* allocVirtualPage was called for a pid without a root where the root serves
\* as the directory of the first step
C10_Witness ==
    /\ levels = 1
    /\ last.op = "allocVirtualPage"
    /\ last.pid \notin DOMAIN pdbr
    /\ last.err = "KeyError"

\* the frames findFree handed out during the step
NewFrames == {f \in Frames : given'[f] # given[f]}

\* C11: for each levels in {1, 2, 3} allocVirtualPage and translate descend
\* through the same number of levels from the root.  translate reads at most
\* levels entries, the first of them in the root frame, and exactly levels when
\* it returns an address; allocVirtualPage allocates at most levels - 1 directory
\* frames; with levels = 2 the entry of a new table is put in the root frame; with
\* levels = 1 it allocates no frame and puts the leaf entry in the root frame.
C11_ConsistentWalk ==
    /\ []( (last.op = "translate" /\ last.err = "none")
           => /\ Len(last.reads) <= levels
              /\ last.reads[1] \div pageSize = pdbr[last.pid]
              /\ last.ret >= 0 => Len(last.reads) = levels )
    /\ [][ (last'.op = "allocVirtualPage" /\ last'.err = "none" /\ calls' # calls)
           => LET rootAddr == pdbr[last'.pid] * pageSize
                  Slots == 0 .. (pageSize - 1)
              IN  /\ Cardinality(NewFrames) <= levels - 1
                  /\ levels = 2 =>
                       \A f \in NewFrames :
                          \E i \in Slots : Load(memory', rootAddr + i) = 128 + f
                  /\ levels = 1 =>
                       /\ usedPages' = usedPages
                       /\ last'.wrote =>
                            \E i \in Slots :
                               /\ Load(memory', rootAddr + i) = 128 + last'.pp
                               /\ Load(memory, rootAddr + i) # 128 + last'.pp
         ]_vars

\* C12: after initPageDir(f), f in [0, PHYS_PAGES), each of the 32 bytes
\* memory[f*32 .. f*32+31] is 0x7F, and every byte outside frame f, the used
\* bits and pdbr are as before the call.
C12_InitPageDirEffect ==
    [][ (last'.op = "initPageDir" /\ calls' # calls)
        => LET f == last'.arg
           IN  /\ last'.err = "none"
               /\ \A i \in 0 .. 31 : Load(memory', f * 32 + i) = 127
               /\ \A g \in Frames \ {f} : PageOf(memory', g) = PageOf(memory, g)
               /\ usedPages' = usedPages
               /\ pdbr' = pdbr
      ]_vars

\* initPageDir was called on the frame that is a root, while another frame
\* holds valid entries
C12_Witness ==
    /\ last.op = "initPageDir"
    /\ \E p \in DOMAIN pdbr : pdbr[p] = last.arg
    /\ usedPages[last.arg] = 1
    /\ \E g \in DOMAIN memory \ {last.arg} : \E i \in 0 .. 31 : Valid(memory[g][i])

\* every entry of frame g is the invalid sentinel or a valid entry put there since
Initialised(g) ==
    \A k \in 0 .. (pageSize - 1) :
       Load(memory, g * pageSize + k) = INVALID_ENTRY \/ Valid(Load(memory, g * pageSize + k))

\* the valid entries of directory frame d, as the frames they point to
Targets(d) ==
    {FrameOf(Load(memory, d * pageSize + k)) :
        k \in {j \in 0 .. (pageSize - 1) : Valid(Load(memory, d * pageSize + j))}}

\* C13: in every state, also between two statements of allocVirtualPage, a valid
\* directory entry (an L0 entry, or an L1 entry of a directory that a valid L0
\* entry points to; with fewer levels an L1 entry of the root) points to a frame
\* whose 32 entries have been initialised.
C13_InitBeforePublish ==
    \A pid \in DOMAIN pdbr :
       /\ \A d \in Targets(pdbr[pid]) : Initialised(d)
       /\ levels = 3 =>
            \A d \in Targets(pdbr[pid]) : \A e \in Targets(d) : Initialised(e)

\* C14: for every va in [0, VA_PAGES * PAGE_SIZE), the L0 index the walk of
\* translate uses is bits 15..11 of va, the L1 index is bits 10..6 of va, each a
\* number in 0..31, and the offset is bits 4..0 of va.
C14_FiveBitFields ==
    (levels = 3 /\ last.op = "translate" /\ last.err = "none" /\ last.arg < vaSize)
    => LET va == last.arg
           rootAddr == pdbr[last.pid] * pageSize
       IN  /\ last.reads[1] - rootAddr = (va \div 2048) % 32
           /\ Len(last.reads) >= 2 => last.reads[2] % pageSize = (va \div 64) % 32
           /\ last.ret >= 0 => last.ret % pageSize = va % 32

\* the leaf slots of pid that hold a valid entry, as <<table frame, slot>>
ValidLeaves(pid) ==
    LET Tabs == UNION {Targets(d) : d \in Targets(pdbr[pid])}
    IN  {x \in Tabs \X (0 .. (pageSize - 1)) : Valid(Load(memory, x[1] * pageSize + x[2]))}

\* C15: after a completed procAlloc(pid, n) on a fresh store (levels = 3) the
\* page table of pid holds exactly n valid leaf entries, one per requested
\* virtual page, each holding its own data frame, and no two distinct requested
\* pages share a leaf slot.
C15_DistinctMappings ==
    (levels = 3 /\ pc = "idle" /\ last.op = "procAlloc" /\ last.err = "none" /\ last.fresh)
    => LET pid == last.pid
           Held == {FrameOf(Load(memory, x[1] * pageSize + x[2])) : x \in ValidLeaves(pid)}
       IN  /\ Cardinality(last.vps) = last.arg
           /\ Cardinality(ValidLeaves(pid)) = last.arg
           /\ Cardinality(Held) = last.arg
           /\ \A f \in Held : usedPages[f] = 1
           /\ \A v \in last.vps :
                 Valid(Load(memory, AllocLeafAddr(memory, pid, v)))
           /\ \A v \in last.vps, w \in last.vps :
                 v # w => AllocLeafAddr(memory, pid, v) # AllocLeafAddr(memory, pid, w)

\* the addresses of the valid entries in the frames of F, and the frames that
\* the entries at the addresses of A hold
EntryAddrs(F) ==
    {a \in {f * pageSize + k : f \in F, k \in 0 .. (pageSize - 1)} : Valid(Load(memory, a))}
PointedBy(A) == {FrameOf(Load(memory, a)) : a \in A}

Roots == {pdbr[p] : p \in DOMAIN pdbr}
\* the valid entries of the roots, of the frames below them, and with three
\* levels of the frames below those: directories, tables and leaves
RoleEntries ==
    LET A0 == EntryAddrs(Roots)
        A1 == EntryAddrs(PointedBy(A0))
        A2 == IF levels = 3 THEN EntryAddrs(PointedBy(A1)) ELSE {}
    IN  A0 \cup A1 \cup A2

\* C16: in every state reached by procAlloc calls on a fresh store, the root
\* frames, the frames that valid L0 and L1 entries point to and the frames held
\* in valid leaf entries are pairwise distinct, and each is marked used.
C16_NoFrameTwoRoles ==
    /\ Cardinality(Roots) = Cardinality(DOMAIN pdbr)
    /\ Cardinality(Roots \cup PointedBy(RoleEntries))
         = Cardinality(Roots) + Cardinality(RoleEntries)
    /\ \A f \in Roots \cup PointedBy(RoleEntries) : usedPages[f] = 1

\* a procAlloc of two pages has completed with three levels: a root, a
\* directory, a table and a data frame are in place
C16_Witness ==
    /\ levels = 3
    /\ pc = "idle"
    /\ last.op = "procAlloc"
    /\ last.err = "none"
    /\ last.arg = 2
    /\ Cardinality(RoleEntries) >= 3

\* C17: a call to translate, whether it returns an address, a fault or raises,
\* leaves memory, the used bits and pdbr as they were, and translating the same
\* address twice in a row gives the same result.
C17_TranslateReadOnly ==
    [][ (last'.op = "translate" /\ last' # last)
        => /\ memory' = memory
           /\ usedPages' = usedPages
           /\ pdbr' = pdbr
           /\ last'.again => (last'.ret = last.ret /\ last'.err = last.err)
      ]_vars

\* an address was translated twice in a row over a populated table, and the
\* second call returned an address
C17_Witness ==
    /\ last.op = "translate"
    /\ last.again
    /\ last.err = "none"
    /\ last.ret >= 0

\* procAlloc has returned with a root and every requested page processed
RunDone ==
    /\ pc = "idle"
    /\ last.op = "procAlloc"
    /\ last.err = "none"
    /\ last.pid \in DOMAIN pdbr
    /\ Cardinality(last.vps) = last.arg

\* C18: procAlloc(1, n) on a fresh 128-frame store with levels = 3 and n <= 64
\* terminates with a root and all n pages processed, whatever the frame and page
\* draws, and no findFree call of the run finds zero free frames: no call raises,
\* and a free frame is left whenever the loop is about to run.
C18_RunCompletes ==
    /\ [](last.err = "none")
    /\ []((pc = "loop" /\ run.i < run.numPages) => NumFree >= 1)
    /\ <>RunDone

\* the run of 64 pages has completed
C18_Witness ==
    /\ RunDone
    /\ last.arg = allocated
    /\ NumFree = physPages - (allocated + 3)

====
